---- MODULE Spec2Model ----
(***************************************************************************)
(* Model of the document summarisation Lambda (index.py, the later asset   *)
(* with the system/user prompt split) of the cloud based document          *)
(* summarizer.                                                              *)
(*                                                                          *)
(* Text is a sequence of Unicode code points (the code itself tests        *)
(* ord(ch)), so "Hi" is <<72, 105>>.  Five specifications share the        *)
(* variables:                                                               *)
(*   Spec        the orchestrator lambda_handler, one step per collaborator *)
(*               call, for several invocations running side by side;        *)
(*   SpecSum     the pure text path of generate_summary, its input text and *)
(*               the generation service's answer drawn from bounded sets;   *)
(*   SpecClean   _clean_extracted_text applied twice to a bounded text;     *)
(*   SpecExtract extract_text on one stored object;                         *)
(*   SpecFront   upload_file of the web front end (frontend/app.py) with    *)
(*               the invocations its uploads start.                         *)
(***************************************************************************)
EXTENDS Integers, Sequences, FiniteSets, TLC

VARIABLES
    \* ---- lambda_handler, per invocation ----
    pc,                     \* position of each invocation in lambda_handler
    event,                  \* the trigger event handed to the invocation
    document_id,            \* index.py:33,42
    processing_timestamp,   \* index.py:34
    bucket,                 \* index.py:37
    key,                    \* index.py:38
    text_content,           \* index.py:46
    summary,                \* index.py:52
    summary_key,            \* index.py:55
    exc,                    \* the exception caught at index.py:89
    outcome,                \* what the caller of lambda_handler receives
    calls,                  \* collaborator calls issued so far, in order
    \* ---- collaborators, shared ----
    now,                    \* the wall clock read by datetime.now
    table,                  \* the DynamoDB table: a set of items, one per primary key
    output_bucket,          \* the output bucket: summary key -> body
    put_log,                \* the put_object requests the output bucket served, in order
    published,              \* messages accepted by the SNS topic
    \* ---- generate_summary as a pure function (SpecSum) ----
    gpc,                    \* position inside generate_summary
    g_input,                \* the argument text_content
    g_truncated,            \* text_content after index.py:215-217
    g_request,              \* text_content placed in prompt_user, index.py:241
    g_response,             \* choices[0].message.content, index.py:261
    g_summary,              \* summary_text
    \* ---- _clean_extracted_text as a pure function (SpecClean) ----
    cpc,                    \* how many sanitizer passes have run
    c_raw,                  \* the argument raw
    c_cleaned,              \* what the pass of index.py:190 returns
    c_again,                \* what the pass of index.py:220 makes of c_cleaned
    \* ---- extract_text on one object (SpecExtract) ----
    xpc,                    \* position inside extract_text
    x_key,                  \* the argument key
    x_data,                 \* the bytes of the object stored under key
    x_blocks,               \* response["Blocks"] of the detection service
    x_calls,                \* collaborator calls issued so far, in order
    x_result,               \* what the caller of extract_text receives
    \* ---- the web front end, upload_file per request (SpecFront) ----
    fpc,                    \* position of each request in upload_file
    f_filename,             \* filename, frontend/app.py:45
    f_polls,                \* polls of the output bucket that found nothing
    f_body,                 \* body, frontend/app.py:60
    f_source,               \* the invocation whose put_object wrote the object read
    input_bucket            \* keys of the objects uploaded to the input bucket

hvars == <<pc, event, document_id, processing_timestamp, bucket, key,
           text_content, summary, summary_key, exc, outcome, calls>>
svars == <<now, table, output_bucket, put_log, published>>
gvars == <<gpc, g_input, g_truncated, g_request, g_response, g_summary>>
cvars == <<cpc, c_raw, c_cleaned, c_again>>
xvars == <<xpc, x_key, x_data, x_blocks, x_calls, x_result>>
fvars == <<fpc, f_filename, f_polls, f_body, f_source, input_bucket>>
\* the variables lambda_handler leaves alone, and those generate_summary does
pvars == <<gvars, cvars, xvars, fvars>>
qvars == <<hvars, svars, cvars, xvars, fvars>>
vars  == <<hvars, svars, gvars, cvars, xvars, fvars>>

----------------------------------------------------------------------------
(* Bounds of the model.                                                     *)

\* invocations of lambda_handler that may run side by side
NumInvocations == 2
\* readings the wall clock can take are 0..MaxClock
MaxClock == 1
\* fragments concatenated into one generation response
MaxFragments == 2

Inv == 1..NumInvocations

----------------------------------------------------------------------------
(* Characters and the str methods the code uses.                            *)

\* str.isspace(): what str.strip() removes and what \s matches
Whitespace ==
    {9, 10, 11, 12, 13, 28, 29, 30, 31, 32, 133, 160, 5760, 8232, 8233, 8239,
     8287, 12288} \cup (8192..8202)

\* line boundaries of str.splitlines()
LineBoundaries == {10, 11, 12, 13, 28, 29, 30, 133, 8232, 8233}

\* number of leading / trailing whitespace characters of s
LeadingSpace(s) ==
    CHOOSE k \in 0..Len(s) :
        /\ (k = Len(s) \/ s[k + 1] \notin Whitespace)
        /\ \A j \in 1..k : s[j] \in Whitespace

TrailingSpace(s) ==
    CHOOSE k \in 0..Len(s) :
        /\ (k = Len(s) \/ s[Len(s) - k] \notin Whitespace)
        /\ \A j \in 1..k : s[Len(s) + 1 - j] \in Whitespace

\* str.strip()
Strip(s) ==
    IF LeadingSpace(s) = Len(s) THEN <<>>
    ELSE SubSeq(s, LeadingSpace(s) + 1, Len(s) - TrailingSpace(s))

\* str.lower() of one character: ASCII and Latin-1 capitals
LowerChar(c) ==
    IF (65 <= c /\ c <= 90) \/ (192 <= c /\ c <= 222 /\ c # 215) THEN c + 32 ELSE c

\* str.lower()
Lower(s) == [i \in 1..Len(s) |-> LowerChar(s[i])]

\* p in s
Contains(s, p) ==
    \E i \in 0..(Len(s) - Len(p)) : \A j \in 1..Len(p) : s[i + j] = p[j]

\* s.startswith(p)
StartsWith(s, p) ==
    /\ Len(p) <= Len(s)
    /\ \A j \in 1..Len(p) : s[j] = p[j]

\* s.replace(ch, "") for a single character ch
RemoveChar(s, ch) == SelectSeq(s, LAMBDA c : c # ch)

----------------------------------------------------------------------------
(* _clean_extracted_text, index.py:114-151.                                 *)

\* characters \d matches: ASCII digits and, of the other decimal digits of
\* Unicode, the Arabic-Indic ones
Digits == (48..57) \cup (1632..1641)

\* number of consecutive characters of s, from position p on, that are in S
RunLen(s, p, S) ==
    CHOOSE k \in 0..(Len(s) + 1 - p) :
        /\ (p + k > Len(s) \/ s[p + k] \notin S)
        /\ \A j \in 0..(k - 1) : s[p + j] \in S

\* position of the first line boundary of s at or after p, Len(s)+1 if none
LineEnd(s, p) ==
    CHOOSE q \in p..(Len(s) + 1) :
        /\ (q > Len(s) \/ s[q] \in LineBoundaries)
        /\ \A j \in p..(q - 1) : s[j] \notin LineBoundaries

\* str.splitlines(): "\r\n" is one boundary, no empty line after a final one
RECURSIVE LinesFrom(_, _)
LinesFrom(s, p) ==
    IF p > Len(s) THEN <<>>
    ELSE LET q == LineEnd(s, p)
             n == IF q < Len(s) /\ s[q] = 13 /\ s[q + 1] = 10 THEN q + 2 ELSE q + 1
         IN  <<SubSeq(s, p, q - 1)>> \o LinesFrom(s, n)

splitlines(s) == LinesFrom(s, 1)

\* "%pdf"
PdfMagic == <<37, 112, 100, 102>>
\* "%%eof"
EofMarker == <<37, 37, 101, 111, 102>>
\* "obj"
ObjWord == <<111, 98, 106>>
\* ("endobj", "stream", "endstream")
ContainerKeywords ==
    { <<101, 110, 100, 111, 98, 106>>,
      <<115, 116, 114, 101, 97, 109>>,
      <<101, 110, 100, 115, 116, 114, 101, 97, 109>> }

\* re.match(r"^\d+\s+\d+\s+obj$", stripped): the classes are disjoint, so the
\* greedy match is the only one
MatchesObjLine(s) ==
    LET d1 == RunLen(s, 1, Digits)
        w1 == RunLen(s, 1 + d1, Whitespace)
        d2 == RunLen(s, 1 + d1 + w1, Digits)
        w2 == RunLen(s, 1 + d1 + w1 + d2, Whitespace)
    IN  /\ d1 > 0 /\ w1 > 0 /\ d2 > 0 /\ w2 > 0
        /\ SubSeq(s, 1 + d1 + w1 + d2 + w2, Len(s)) = ObjWord

\* the tests of index.py:131-138 on a stripped, non-empty line
IsStructuralLine(stripped) ==
    LET lower == Lower(stripped)
    IN  \/ StartsWith(lower, PdfMagic)
        \/ StartsWith(lower, EofMarker)
        \/ MatchesObjLine(stripped)
        \/ lower \in ContainerKeywords

\* the loop of index.py:122-140 over the lines from the k-th on
RECURSIVE CleanLines(_, _)
CleanLines(lines, k) ==
    IF k > Len(lines) THEN <<>>
    ELSE LET stripped == Strip(lines[k])
         IN  IF stripped = <<>> THEN <<(<<>>)>> \o CleanLines(lines, k + 1)
             ELSE IF IsStructuralLine(stripped) THEN CleanLines(lines, k + 1)
             ELSE <<stripped>> \o CleanLines(lines, k + 1)

\* "\n".join(lines)
RECURSIVE JoinFrom(_, _)
JoinFrom(lines, k) ==
    IF k > Len(lines) THEN <<>>
    ELSE IF k = Len(lines) THEN lines[k]
    ELSE lines[k] \o <<10>> \o JoinFrom(lines, k + 1)

JoinLines(lines) == JoinFrom(lines, 1)

\* the filter keeping every character from 128 on
IsPrintable_From128(ch) == ch \in {10, 9} \/ (32 <= ch /\ ch <= 126) \/ ch >= 128

\* the filter of index.py:148
IsPrintable(ch) == ch \in {10, 9} \/ (32 <= ch /\ ch <= 126) \/ ch >= 160

_clean_extracted_text(raw) ==
    SelectSeq(JoinLines(CleanLines(splitlines(raw), 1)), IsPrintable)

----------------------------------------------------------------------------
(* extract_text, index.py:155-196: the choice of strategy and the decoding. *)

\* position of the last ch in s, 0 when there is none (str.rfind, one-based)
LastIndexOf(s, ch) ==
    IF \E k \in 1..Len(s) : s[k] = ch
    THEN CHOOSE k \in 1..Len(s) : s[k] = ch /\ \A j \in (k + 1)..Len(s) : s[j] # ch
    ELSE 0

\* os.path.splitext(p)[1]: from the last dot of the last path component on,
\* unless only dots stand before it in that component
splitext(p) ==
    LET sep == LastIndexOf(p, 47)
        dot == LastIndexOf(p, 46)
    IN  IF dot > sep /\ \E k \in (sep + 1)..(dot - 1) : p[k] # 46
        THEN SubSeq(p, dot, Len(p))
        ELSE <<>>

\* [".txt", ".md", ".csv", ".log"], index.py:165
PlainTextExtensions ==
    { <<46, 116, 120, 116>>, <<46, 109, 100>>,
      <<46, 99, 115, 118>>, <<46, 108, 111, 103>> }

\* the extension test written without key.lower()
IsPlainTextKey_CaseSensitive(k) == splitext(k) \in PlainTextExtensions

\* index.py:163-165
IsPlainTextKey(k) == splitext(Lower(k)) \in PlainTextExtensions

\* a UTF-8 continuation byte
IsContinuation(b) == 128 <= b /\ b <= 191

\* length of the well-formed UTF-8 sequence that starts at d[i], 0 if none does
Utf8Len(d, i) ==
    LET b == d[i]
        n == Len(d)
    IN  IF b <= 127 THEN 1
        ELSE IF 194 <= b /\ b <= 223
             THEN IF i + 1 <= n /\ IsContinuation(d[i + 1]) THEN 2 ELSE 0
        ELSE IF 224 <= b /\ b <= 239
             THEN IF /\ i + 2 <= n
                     /\ IsContinuation(d[i + 1]) /\ IsContinuation(d[i + 2])
                     /\ (b = 224 => d[i + 1] >= 160)
                     /\ (b = 237 => d[i + 1] <= 159)
                  THEN 3 ELSE 0
        ELSE IF 240 <= b /\ b <= 244
             THEN IF /\ i + 3 <= n
                     /\ IsContinuation(d[i + 1]) /\ IsContinuation(d[i + 2])
                     /\ IsContinuation(d[i + 3])
                     /\ (b = 240 => d[i + 1] >= 144)
                     /\ (b = 244 => d[i + 1] <= 143)
                  THEN 4 ELSE 0
        ELSE 0

\* the code point of the well-formed sequence of length n at d[i]
Utf8CodePoint(d, i, n) ==
    IF n = 1 THEN d[i]
    ELSE IF n = 2 THEN (d[i] - 192) * 64 + (d[i + 1] - 128)
    ELSE IF n = 3 THEN (d[i] - 224) * 4096 + (d[i + 1] - 128) * 64 + (d[i + 2] - 128)
    ELSE (d[i] - 240) * 262144 + (d[i + 1] - 128) * 4096
            + (d[i + 2] - 128) * 64 + (d[i + 3] - 128)

\* data.decode("utf-8", errors="ignore") of d[lo..hi]: the code points of the
\* well-formed sequences that start there, in order.  A byte that starts none
\* is left out; a byte inside a well-formed sequence is a continuation byte
\* and starts none, so the halves can be decoded apart.
RECURSIVE DecodeUtf8Range(_, _, _)
DecodeUtf8Range(d, lo, hi) ==
    IF lo > hi THEN <<>>
    ELSE IF lo = hi
         THEN LET n == Utf8Len(d, lo)
              IN  IF n = 0 THEN <<>> ELSE <<Utf8CodePoint(d, lo, n)>>
    ELSE LET mid == (lo + hi) \div 2
         IN  DecodeUtf8Range(d, lo, mid) \o DecodeUtf8Range(d, mid + 1, hi)

DecodeUtf8Ignore(d) == DecodeUtf8Range(d, 1, Len(d))

\* d is well-formed UTF-8 from d[i] on: data.decode("utf-8") does not raise
RECURSIVE IsUtf8From(_, _)
IsUtf8From(d, i) ==
    IF i > Len(d) THEN TRUE
    ELSE Utf8Len(d, i) > 0 /\ IsUtf8From(d, i + Utf8Len(d, i))

\* data.decode("latin-1", errors="ignore"): every byte is the character of
\* the same number
DecodeLatin1(d) == [k \in 1..Len(d) |-> d[k]]

\* index.py:168-171
DecodePlain(d) == IF IsUtf8From(d, 1) THEN DecodeUtf8Ignore(d) ELSE DecodeLatin1(d)

\* the list of index.py:178-182 from the k-th block on
RECURSIVE LineTexts(_, _)
LineTexts(blocks, k) ==
    IF k > Len(blocks) THEN <<>>
    ELSE IF blocks[k].BlockType = "LINE"
         THEN <<blocks[k].Text>> \o LineTexts(blocks, k + 1)
         ELSE LineTexts(blocks, k + 1)

\* index.py:178-183
TextOfBlocks(blocks) == JoinLines(LineTexts(blocks, 1))

----------------------------------------------------------------------------
(* generate_summary, index.py:211-286, and _generic_failure_summary.        *)

\* the four numbered sentences of index.py:204-207, joined by newlines
_generic_failure_summary ==
    <<49, 46, 32, 84, 104, 101, 32, 100, 111, 99, 117, 109, 101, 110, 116,
    32, 116, 101, 120, 116, 32, 99, 111, 117, 108, 100, 32, 110, 111, 116,
    32, 98, 101, 32, 114, 101, 97, 100, 32, 105, 110, 32, 97, 32, 99, 108,
    101, 97, 114, 32, 119, 97, 121, 46, 10, 50, 46, 32, 78, 111, 32, 114,
    101, 108, 105, 97, 98, 108, 101, 32, 116, 111, 112, 105, 99, 115, 44,
    32, 102, 97, 99, 116, 115, 44, 32, 111, 114, 32, 100, 97, 116, 101, 115,
    32, 99, 97, 110, 32, 98, 101, 32, 105, 100, 101, 110, 116, 105, 102,
    105, 101, 100, 32, 102, 114, 111, 109, 32, 116, 104, 101, 32, 97, 118,
    97, 105, 108, 97, 98, 108, 101, 32, 100, 97, 116, 97, 46, 10, 51, 46,
    32, 67, 111, 110, 115, 105, 100, 101, 114, 32, 117, 112, 108, 111, 97,
    100, 105, 110, 103, 32, 97, 32, 116, 101, 120, 116, 45, 98, 97, 115,
    101, 100, 32, 111, 114, 32, 115, 101, 97, 114, 99, 104, 97, 98, 108,
    101, 32, 80, 68, 70, 32, 118, 101, 114, 115, 105, 111, 110, 32, 111,
    102, 32, 116, 104, 101, 32, 102, 105, 108, 101, 46, 10, 52, 46, 32, 73,
    102, 32, 116, 104, 101, 32, 102, 105, 108, 101, 32, 105, 115, 32, 115,
    99, 97, 110, 110, 101, 100, 44, 32, 116, 114, 121, 32, 114, 117, 110,
    110, 105, 110, 103, 32, 79, 67, 82, 32, 108, 111, 99, 97, 108, 108, 121,
    32, 97, 110, 100, 32, 117, 112, 108, 111, 97, 100, 105, 110, 103, 32,
    116, 104, 101, 32, 101, 120, 116, 114, 97, 99, 116, 101, 100, 32, 116,
    101, 120, 116, 46>>


\* index.py:214
max_length == 10000

\* "..."
TruncationMarker == <<46, 46, 46>>

\* the cut without the marker
Truncate_NoMarker(text) ==
    IF Len(text) > max_length THEN SubSeq(text, 1, max_length) ELSE text

\* index.py:215-216
Truncate(text) ==
    IF Len(text) > max_length
    THEN SubSeq(text, 1, max_length) \o TruncationMarker
    ELSE text

\* index.py:220, the text that goes into prompt_user (index.py:241)
RequestText(truncated) == _clean_extracted_text(truncated)

\* index.py:264: "*", U+2022 bullet, U+25CF black circle, "-", U+25AA small square
FormattingChars == <<42, 8226, 9679, 45, 9642>>

\* the loop of index.py:264-265 from the k-th character of the list on
RECURSIVE RemoveFormatting(_, _)
RemoveFormatting(s, k) ==
    IF k > Len(FormattingChars) THEN s
    ELSE RemoveFormatting(RemoveChar(s, FormattingChars[k]), k + 1)

\* index.py:264-267
PostProcess(content) == Strip(RemoveFormatting(content, 1))

\* index.py:271-277: "appears to be corrupted", "contains unreadable data",
\* "not in a recognizable text format", "not presented in a coherent, textual format",
\* "raw, binary data"
bad_phrases ==
    {
      <<97, 112, 112, 101, 97, 114, 115, 32, 116, 111, 32, 98, 101, 32, 99,
      111, 114, 114, 117, 112, 116, 101, 100>>,
      <<99, 111, 110, 116, 97, 105, 110, 115, 32, 117, 110, 114, 101, 97,
      100, 97, 98, 108, 101, 32, 100, 97, 116, 97>>,
      <<110, 111, 116, 32, 105, 110, 32, 97, 32, 114, 101, 99, 111, 103,
      110, 105, 122, 97, 98, 108, 101, 32, 116, 101, 120, 116, 32, 102, 111,
      114, 109, 97, 116>>,
      <<110, 111, 116, 32, 112, 114, 101, 115, 101, 110, 116, 101, 100, 32,
      105, 110, 32, 97, 32, 99, 111, 104, 101, 114, 101, 110, 116, 44, 32,
      116, 101, 120, 116, 117, 97, 108, 32, 102, 111, 114, 109, 97, 116>>,
      <<114, 97, 119, 44, 32, 98, 105, 110, 97, 114, 121, 32, 100, 97, 116,
      97>>
    }


\* the phrases looked for in summary_text itself, not in its lower-case form
HasBadPhrase_CaseSensitive(summary_text) ==
    \E p \in bad_phrases : Contains(summary_text, p)

\* any(p in lower for p in bad_phrases), index.py:270-278
HasBadPhrase(summary_text) ==
    \E p \in bad_phrases : Contains(Lower(summary_text), p)

\* index.py:278-282
PolicyGuard(summary_text) ==
    IF HasBadPhrase(summary_text) THEN _generic_failure_summary ELSE summary_text

\* what generate_summary returns when the service answers with content
SummaryOf(content) == PolicyGuard(PostProcess(content))

----------------------------------------------------------------------------
(* The orchestrator lambda_handler and its collaborators, index.py:31-112   *)
(* and 290-377.                                                             *)

\* a value that is no str: Python's None, and a local not yet assigned
None == <<-1>>

\* "UNKNOWN"
UNKNOWN == <<85, 78, 75, 78, 79, 87, 78>>

\* event["Records"][0]["s3"]: a well-formed trigger names the bucket and the
\* URL-encoded key ("invoice/jan.pdf", "r+1.pdf"); a malformed one has no
\* "Records", or names the bucket and has no "key"
EventKeys ==
    { <<105, 110, 118, 111, 105, 99, 101, 47, 106, 97, 110, 46, 112, 100, 102>>,
      <<114, 43, 49, 46, 112, 100, 102>> }
InputBucket == <<105, 110>>
Events ==
    {[Records |-> TRUE, bucket |-> InputBucket, key |-> k] : k \in EventKeys}
        \cup {[Records |-> FALSE], [Records |-> TRUE, bucket |-> InputBucket]}

\* the lookups of index.py:37-38 both succeed on ev
WellFormed(ev) == ev.Records /\ "key" \in DOMAIN ev

\* value of a hexadecimal digit, -1 for any other character
HexVal(c) ==
    IF 48 <= c /\ c <= 57 THEN c - 48
    ELSE IF 65 <= c /\ c <= 70 THEN c - 55
    ELSE IF 97 <= c /\ c <= 102 THEN c - 87
    ELSE 0 - 1

\* urllib.parse.unquote on ASCII escapes: "%41" is "A"
RECURSIVE Unquote(_, _)
Unquote(s, i) ==
    IF i > Len(s) THEN <<>>
    ELSE IF s[i] = 37 /\ i + 2 <= Len(s) /\ HexVal(s[i + 1]) >= 0 /\ HexVal(s[i + 2]) >= 0
         THEN <<16 * HexVal(s[i + 1]) + HexVal(s[i + 2])>> \o Unquote(s, i + 3)
    ELSE <<s[i]>> \o Unquote(s, i + 1)

\* urllib.parse.unquote_plus: "+" is a space, then the escapes
unquote_plus(s) == Unquote([i \in 1..Len(s) |-> IF s[i] = 43 THEN 32 ELSE s[i]], 1)

\* an identity made from the document alone: every invocation gets "uuid-0"
Uuid4_SameForAll(i) == <<117, 117, 105, 100, 45, 48>>

\* str(uuid.uuid4()): "uuid-" and the invocation's digit; two calls never
\* return the same value
Uuid4(i) == <<117, 117, 105, 100, 45>> \o <<48 + i>>

\* the exceptions that reach index.py:89, each with its str(e)
KeyErrorExc == [type |-> "KeyError", message |-> <<39, 82, 101, 99, 111, 114, 100, 115, 39>>]
\* KeyError('key'), raised at index.py:38
KeyErrorKeyExc == [type |-> "KeyError", message |-> <<39, 107, 101, 121, 39>>]
EmptyTextExc == [type |-> "ValueError", message |-> 
    <<78, 111, 32, 116, 101, 120, 116, 32, 99, 111, 117, 108, 100, 32, 98,
      101, 32, 101, 120, 116, 114, 97, 99, 116, 101, 100, 32, 102, 114, 111,
      109, 32, 116, 104, 101, 32, 100, 111, 99, 117, 109, 101, 110, 116, 46>>]
ExtractionExc == [type |-> "ExtractionError", message |-> <<116, 101, 120, 116, 114, 97, 99, 116>>]
GenerationExc == [type |-> "GenerationError", message |-> <<98, 101, 100, 114, 111, 99, 107>>]
PutObjectExc == [type |-> "PutObjectError", message |-> <<115, 51>>]
\* what put_item or publish raises ("service"), swallowed where it is raised
CollaboratorExc == [type |-> "ClientError", message |-> <<115, 101, 114, 118, 105, 99, 101>>]
NoExc == [type |-> "none", message |-> <<>>]

\* texts extract_text hands back: "", " \n", "Hi"
ExtractedTexts == { <<>>, <<32, 10>>, <<72, 105>> }

\* answers of the generation service seen by the orchestrator:
\* "*1. Ok*" and "It appears to be corrupted."
HandlerResponses ==
    { <<42, 49, 46, 32, 79, 107, 42>>,
      <<73, 116, 32, 97, 112, 112, 101, 97, 114, 115, 32, 116, 111, 32, 98, 101, 32, 99, 111, 114, 114, 117, 112, 116, 101, 100, 46>> }

\* an artifact key of its own for every attempt: the key with the moment of
\* the write in front
SummaryKeyOf_PerAttempt(original_key) ==
    <<115, 117, 109, 109, 97, 114, 105, 101, 115, 47>> \o <<48 + Len(put_log), 47>>
        \o original_key \o <<46, 115, 117, 109, 109, 97, 114, 121, 46, 116, 120, 116>>

\* f"summaries/{original_key}.summary.txt", index.py:293
SummaryKeyOf(original_key) ==
    <<115, 117, 109, 109, 97, 114, 105, 101, 115, 47>> \o original_key
        \o <<46, 115, 117, 109, 109, 97, 114, 121, 46, 116, 120, 116>>

\* document_id handed on as it is
OrUnknown_AsIs(id) == id

\* document_id or "UNKNOWN", index.py:94,101
OrUnknown(id) == IF id = None \/ id = <<>> THEN UNKNOWN ELSE id

\* key if "key" in locals() else "UNKNOWN", index.py:95,102
KeyOrUnknown(k) == IF k = None THEN UNKNOWN ELSE k

\* store_metadata reading the clock itself instead of taking the caller's timestamp
MetadataItem_FreshTimestamp(id, document_key, status, timestamp, additional_data) ==
    additional_data @@
    [document_id |-> id, processing_timestamp |-> now,
     document_key |-> document_key, processing_status |-> status]

\* the item of store_metadata, index.py:326-337 (ttl, a clock reading, left out)
MetadataItem(id, document_key, status, timestamp, additional_data) ==
    additional_data @@
    [document_id |-> id, processing_timestamp |-> timestamp,
     document_key |-> document_key, processing_status |-> status]

\* the table's primary key, app.py:77-82
PrimaryKey(item) == <<item.document_id, item.processing_timestamp>>

\* table.put_item: an item with the same primary key is replaced
PutItem(tbl, item) ==
    {it \in tbl : PrimaryKey(it) # PrimaryKey(item)} \cup {item}

\* the message of send_notification, index.py:355-366 (its timestamp left out)
NotificationMessage(id, document_key, skey, status, error_message) ==
    (IF skey # None /\ skey # <<>> THEN [summary_key |-> skey] ELSE <<>>) @@
    (IF error_message # None /\ error_message # <<>>
        THEN [error_message |-> error_message] ELSE <<>>) @@
    [document_id |-> id, document_key |-> document_key, status |-> status]

\* the result returned at index.py:76-87
SuccessResult(id, document_key, skey, summary_text) ==
    [statusCode |-> 200,
     body |-> [message |-> "Document processed successfully",
               document_id |-> id, document |-> document_key,
               summary_key |-> skey, summary_length |-> Len(summary_text)]]

----------------------------------------------------------------------------
(* State after the module is loaded and before any invocation.              *)

HandlerInit ==
    /\ pc = [i \in Inv |-> "idle"]
    /\ event = [i \in Inv |-> [Records |-> FALSE]]
    /\ document_id = [i \in Inv |-> None]
    /\ processing_timestamp = [i \in Inv |-> 0]
    /\ bucket = [i \in Inv |-> None]
    /\ key = [i \in Inv |-> None]
    /\ text_content = [i \in Inv |-> None]
    /\ summary = [i \in Inv |-> None]
    /\ summary_key = [i \in Inv |-> None]
    /\ exc = [i \in Inv |-> NoExc]
    /\ outcome = [i \in Inv |-> [kind |-> "running"]]
    /\ calls = [i \in Inv |-> <<>>]
    /\ now = 0
    /\ table = {}
    /\ output_bucket = <<>>
    /\ put_log = <<>>
    /\ published = {}

SumIdle ==
    /\ gpc = "off"
    /\ g_input = <<>>
    /\ g_truncated = <<>>
    /\ g_request = <<>>
    /\ g_response = <<>>
    /\ g_summary = <<>>

CleanIdle ==
    /\ cpc = "off"
    /\ c_raw = <<>>
    /\ c_cleaned = <<>>
    /\ c_again = <<>>

ExtractIdle ==
    /\ xpc = "off"
    /\ x_key = <<>>
    /\ x_data = <<>>
    /\ x_blocks = <<>>
    /\ x_calls = <<>>
    /\ x_result = [kind |-> "running"]

FrontIdle ==
    /\ fpc = [u \in Inv |-> "idle"]
    /\ f_filename = [u \in Inv |-> None]
    /\ f_polls = [u \in Inv |-> 0]
    /\ f_body = [u \in Inv |-> None]
    /\ f_source = [u \in Inv |-> 0]
    /\ input_bucket = {}

Init == HandlerInit /\ SumIdle /\ CleanIdle /\ ExtractIdle /\ FrontIdle

----------------------------------------------------------------------------
(* Steps of lambda_handler.  Each collaborator call either succeeds or      *)
(* raises; store_metadata and send_notification catch what their call       *)
(* raises (index.py:342-343, 376-377).                                      *)

\* one more entry in invocation i's record of collaborator calls
Called(i, op, arg, ok) ==
    calls' = [calls EXCEPT ![i] = Append(@, [op |-> op, arg |-> arg, ok |-> ok])]

\* store_metadata, index.py:317-343: put_item, its failure logged and dropped
store_metadata(i, id, document_key, status, timestamp, additional_data, ok) ==
    LET item == MetadataItem(id, document_key, status, timestamp, additional_data)
    IN  /\ table' = IF ok THEN PutItem(table, item) ELSE table
        /\ Called(i, "put_item", item, ok)

\* send_notification, index.py:346-377: publish, its failure logged and dropped
send_notification(i, id, document_key, skey, status, error_message, ok) ==
    LET message == NotificationMessage(id, document_key, skey, status, error_message)
    IN  /\ published' = IF ok THEN published \cup {message} ELSE published
        /\ Called(i, "publish", message, ok)

\* the wall clock advances
Tick ==
    /\ now < MaxClock
    /\ now' = now + 1
    /\ UNCHANGED <<hvars, table, output_bucket, put_log, published, pvars>>

\* index.py:33-42 on the event ev: the timestamp is read, the event taken
\* apart, the id minted
Enter(i, ev) ==
    /\ event' = [event EXCEPT ![i] = ev]
    /\ processing_timestamp' = [processing_timestamp EXCEPT ![i] = now]
    /\ IF WellFormed(ev)
       THEN /\ bucket' = [bucket EXCEPT ![i] = ev.bucket]
            /\ key' = [key EXCEPT ![i] = unquote_plus(ev.key)]
            /\ document_id' = [document_id EXCEPT ![i] = Uuid4(i)]
            /\ pc' = [pc EXCEPT ![i] = "put_processing"]
            /\ UNCHANGED exc
       ELSE IF ev.Records
       THEN /\ bucket' = [bucket EXCEPT ![i] = ev.bucket]
            /\ exc' = [exc EXCEPT ![i] = KeyErrorKeyExc]
            /\ pc' = [pc EXCEPT ![i] = "put_failed"]
            /\ UNCHANGED <<key, document_id>>
       ELSE /\ exc' = [exc EXCEPT ![i] = KeyErrorExc]
            /\ pc' = [pc EXCEPT ![i] = "put_failed"]
            /\ UNCHANGED <<bucket, key, document_id>>
    /\ UNCHANGED <<text_content, summary, summary_key, outcome, calls, svars, pvars>>

\* lambda_handler is invoked with some trigger event
Invoke(i) ==
    /\ pc[i] = "idle"
    /\ \E ev \in Events : Enter(i, ev)

\* the PROCESSING record written before the document_id is minted
PutProcessing_BeforeId(i) ==
    /\ pc[i] = "put_processing"
    /\ \E ok \in BOOLEAN :
        store_metadata(i, UNKNOWN, key[i], "PROCESSING", processing_timestamp[i], <<>>, ok)
    /\ pc' = [pc EXCEPT ![i] = "extract"]
    /\ UNCHANGED <<event, document_id, processing_timestamp, bucket, key, text_content,
                   summary, summary_key, exc, outcome, now, output_bucket, put_log, published, pvars>>

\* index.py:44
PutProcessing(i) ==
    /\ pc[i] = "put_processing"
    /\ \E ok \in BOOLEAN :
        store_metadata(i, document_id[i], key[i], "PROCESSING",
                       processing_timestamp[i], <<>>, ok)
    /\ pc' = [pc EXCEPT ![i] = "extract"]
    /\ UNCHANGED <<event, document_id, processing_timestamp, bucket, key, text_content,
                   summary, summary_key, exc, outcome, now, output_bucket, put_log, published, pvars>>

\* the emptiness test written "if not text_content", without strip()
ExtractText_NoStrip(i) ==
    /\ pc[i] = "extract"
    /\ \/ /\ Called(i, "extract_text", <<>>, FALSE)
          /\ exc' = [exc EXCEPT ![i] = ExtractionExc]
          /\ pc' = [pc EXCEPT ![i] = "put_failed"]
          /\ UNCHANGED text_content
       \/ \E t \in ExtractedTexts :
          /\ Called(i, "extract_text", <<>>, TRUE)
          /\ text_content' = [text_content EXCEPT ![i] = t]
          /\ IF t = <<>>
             THEN /\ exc' = [exc EXCEPT ![i] = EmptyTextExc]
                  /\ pc' = [pc EXCEPT ![i] = "put_failed"]
             ELSE /\ pc' = [pc EXCEPT ![i] = "generate"]
                  /\ UNCHANGED exc
    /\ UNCHANGED <<event, document_id, processing_timestamp, bucket, key,
                   summary, summary_key, outcome, svars, pvars>>

\* index.py:46-50: extract_text raises or returns; blank text raises ValueError
ExtractText(i) ==
    /\ pc[i] = "extract"
    /\ \/ /\ Called(i, "extract_text", <<>>, FALSE)
          /\ exc' = [exc EXCEPT ![i] = ExtractionExc]
          /\ pc' = [pc EXCEPT ![i] = "put_failed"]
          /\ UNCHANGED text_content
       \/ \E t \in ExtractedTexts :
          /\ Called(i, "extract_text", <<>>, TRUE)
          /\ text_content' = [text_content EXCEPT ![i] = t]
          /\ IF Strip(t) = <<>>
             THEN /\ exc' = [exc EXCEPT ![i] = EmptyTextExc]
                  /\ pc' = [pc EXCEPT ![i] = "put_failed"]
             ELSE /\ pc' = [pc EXCEPT ![i] = "generate"]
                  /\ UNCHANGED exc
    /\ UNCHANGED <<event, document_id, processing_timestamp, bucket, key,
                   summary, summary_key, outcome, svars, pvars>>

\* index.py:52: generate_summary asks the service once and raises what it raises
GenerateSummary(i) ==
    /\ pc[i] = "generate"
    /\ LET request == RequestText(Truncate(text_content[i]))
       IN  \/ /\ Called(i, "invoke_model", request, FALSE)
              /\ exc' = [exc EXCEPT ![i] = GenerationExc]
              /\ pc' = [pc EXCEPT ![i] = "put_failed"]
              /\ UNCHANGED summary
           \/ \E content \in HandlerResponses :
              /\ Called(i, "invoke_model", request, TRUE)
              /\ summary' = [summary EXCEPT ![i] = SummaryOf(content)]
              /\ pc' = [pc EXCEPT ![i] = "store_summary"]
              /\ UNCHANGED exc
    /\ UNCHANGED <<event, document_id, processing_timestamp, bucket, key,
                   text_content, summary_key, outcome, svars, pvars>>

\* store_summary trying put_object a second time when the first try fails
StoreSummary_Retries(i) ==
    /\ pc[i] = "store_summary"
    /\ LET skey == SummaryKeyOf(key[i])
       IN  \/ /\ Called(i, "put_object", skey, TRUE)
              /\ output_bucket' = (skey :> summary[i]) @@ output_bucket
              /\ put_log' = Append(put_log, [by |-> i, Key |-> skey, Body |-> summary[i]])
              /\ summary_key' = [summary_key EXCEPT ![i] = skey]
              /\ pc' = [pc EXCEPT ![i] = "put_completed"]
              /\ UNCHANGED exc
           \/ /\ Called(i, "put_object", skey, FALSE)
              /\ IF \A k \in 1..Len(calls[i]) : calls[i][k].op # "put_object"
                 THEN UNCHANGED <<pc, exc>>
                 ELSE /\ exc' = [exc EXCEPT ![i] = PutObjectExc]
                      /\ pc' = [pc EXCEPT ![i] = "put_failed"]
              /\ UNCHANGED <<output_bucket, put_log, summary_key>>
    /\ UNCHANGED <<event, document_id, processing_timestamp, bucket, key,
                   text_content, summary, outcome, now, table, published, pvars>>

\* index.py:55 and store_summary, index.py:290-314
StoreSummary(i) ==
    /\ pc[i] = "store_summary"
    /\ LET skey == SummaryKeyOf(key[i])
       IN  \/ /\ Called(i, "put_object", skey, TRUE)
              /\ output_bucket' = (skey :> summary[i]) @@ output_bucket
              /\ put_log' = Append(put_log, [by |-> i, Key |-> skey, Body |-> summary[i]])
              /\ summary_key' = [summary_key EXCEPT ![i] = skey]
              /\ pc' = [pc EXCEPT ![i] = "put_completed"]
              /\ UNCHANGED exc
           \/ /\ Called(i, "put_object", skey, FALSE)
              /\ exc' = [exc EXCEPT ![i] = PutObjectExc]
              /\ pc' = [pc EXCEPT ![i] = "put_failed"]
              /\ UNCHANGED <<output_bucket, put_log, summary_key>>
    /\ UNCHANGED <<event, document_id, processing_timestamp, bucket, key,
                   text_content, summary, outcome, now, table, published, pvars>>

\* store_metadata letting the failure of put_item out: the handler catches it
PutCompleted_Propagates(i) ==
    /\ pc[i] = "put_completed"
    /\ \E ok \in BOOLEAN :
        /\ store_metadata(i, document_id[i], key[i], "COMPLETED", processing_timestamp[i],
                          [summary_key |-> summary_key[i],
                           text_length |-> Len(text_content[i]),
                           summary_length |-> Len(summary[i])], ok)
        /\ IF ok
           THEN pc' = [pc EXCEPT ![i] = "notify_success"] /\ UNCHANGED exc
           ELSE /\ pc' = [pc EXCEPT ![i] = "put_failed"]
                /\ exc' = [exc EXCEPT ![i] = CollaboratorExc]
    /\ UNCHANGED <<event, document_id, processing_timestamp, bucket, key, text_content,
                   summary, summary_key, outcome, now, output_bucket, put_log, published, pvars>>

\* index.py:61-72
PutCompleted(i) ==
    /\ pc[i] = "put_completed"
    /\ \E ok \in BOOLEAN :
        store_metadata(i, document_id[i], key[i], "COMPLETED", processing_timestamp[i],
                       [summary_key |-> summary_key[i],
                        text_length |-> Len(text_content[i]),
                        summary_length |-> Len(summary[i])], ok)
    /\ pc' = [pc EXCEPT ![i] = "notify_success"]
    /\ UNCHANGED <<event, document_id, processing_timestamp, bucket, key, text_content,
                   summary, summary_key, exc, outcome, now, output_bucket, put_log, published, pvars>>

\* send_notification letting the failure of publish out: the handler catches it
NotifySuccess_Propagates(i) ==
    /\ pc[i] = "notify_success"
    /\ \E ok \in BOOLEAN :
        /\ send_notification(i, document_id[i], key[i], summary_key[i], "SUCCESS", None, ok)
        /\ IF ok
           THEN /\ outcome' = [outcome EXCEPT ![i] =
                       [kind |-> "returned",
                        result |-> SuccessResult(document_id[i], key[i],
                                                 summary_key[i], summary[i])]]
                /\ pc' = [pc EXCEPT ![i] = "returned"]
                /\ UNCHANGED exc
           ELSE /\ pc' = [pc EXCEPT ![i] = "put_failed"]
                /\ exc' = [exc EXCEPT ![i] = CollaboratorExc]
                /\ UNCHANGED outcome
    /\ UNCHANGED <<event, document_id, processing_timestamp, bucket, key, text_content,
                   summary, summary_key, now, table, output_bucket, put_log, pvars>>

\* index.py:74-87: the SUCCESS notification, then the result is returned
NotifySuccess(i) ==
    /\ pc[i] = "notify_success"
    /\ \E ok \in BOOLEAN :
        send_notification(i, document_id[i], key[i], summary_key[i], "SUCCESS", None, ok)
    /\ outcome' = [outcome EXCEPT ![i] =
            [kind |-> "returned",
             result |-> SuccessResult(document_id[i], key[i], summary_key[i], summary[i])]]
    /\ pc' = [pc EXCEPT ![i] = "returned"]
    /\ UNCHANGED <<event, document_id, processing_timestamp, bucket, key, text_content,
                   summary, summary_key, exc, now, table, output_bucket, put_log, pvars>>

\* index.py:89-99: the FAILED record of the exception handler
PutFailed(i) ==
    /\ pc[i] = "put_failed"
    /\ \E ok \in BOOLEAN :
        store_metadata(i, OrUnknown(document_id[i]), KeyOrUnknown(key[i]), "FAILED",
                       processing_timestamp[i],
                       [error_message |-> exc[i].message], ok)
    /\ pc' = [pc EXCEPT ![i] = "notify_failed"]
    /\ UNCHANGED <<event, document_id, processing_timestamp, bucket, key, text_content,
                   summary, summary_key, exc, outcome, now, output_bucket, put_log, published, pvars>>

\* the handler raising the failure of the notification in place of the caught one
NotifyFailed_RaisesInner(i) ==
    /\ pc[i] = "notify_failed"
    /\ \E ok \in BOOLEAN :
        /\ send_notification(i, OrUnknown(document_id[i]), KeyOrUnknown(key[i]), None,
                             "FAILED", exc[i].message, ok)
        /\ outcome' = [outcome EXCEPT ![i] =
                [kind |-> "raised", exception |-> IF ok THEN exc[i] ELSE CollaboratorExc]]
    /\ pc' = [pc EXCEPT ![i] = "raised"]
    /\ UNCHANGED <<event, document_id, processing_timestamp, bucket, key, text_content,
                   summary, summary_key, exc, now, table, output_bucket, put_log, pvars>>

\* index.py:100-112: the FAILED notification, then the caught exception is raised
NotifyFailed(i) ==
    /\ pc[i] = "notify_failed"
    /\ \E ok \in BOOLEAN :
        send_notification(i, OrUnknown(document_id[i]), KeyOrUnknown(key[i]), None,
                          "FAILED", exc[i].message, ok)
    /\ outcome' = [outcome EXCEPT ![i] = [kind |-> "raised", exception |-> exc[i]]]
    /\ pc' = [pc EXCEPT ![i] = "raised"]
    /\ UNCHANGED <<event, document_id, processing_timestamp, bucket, key, text_content,
                   summary, summary_key, exc, now, table, output_bucket, put_log, pvars>>

Next ==
    \/ Tick
    \/ \E i \in Inv : Invoke(i)
    \/ \E i \in Inv : PutProcessing(i)
    \/ \E i \in Inv : ExtractText(i)
    \/ \E i \in Inv : GenerateSummary(i)
    \/ \E i \in Inv : StoreSummary(i)
    \/ \E i \in Inv : PutCompleted(i)
    \/ \E i \in Inv : NotifySuccess(i)
    \/ \E i \in Inv : PutFailed(i)
    \/ \E i \in Inv : NotifyFailed(i)

Spec == Init /\ [][Next]_vars

----------------------------------------------------------------------------
(* generate_summary as a pure function: its argument and the answer of the  *)
(* generation service are drawn from bounded sets, its steps applied in     *)
(* order.                                                                    *)

\* n times the letter "a"
Filler(n) == [k \in 1..n |-> 97]

\* lengths of filler that put the cut of index.py:216 before, inside and after
\* the tail of the text
FillLengths == {0, 2, max_length - 8, max_length - 6, max_length, max_length + 1}

\* what stands before the filler: nothing, a space
Heads == { <<>>, <<32>> }

\* what stands after it: nothing, "\n%%EOF\x00b"
Tails == { <<>>, <<10, 37, 37, 69, 79, 70, 0, 98>> }

SumInputs == {h \o Filler(n) \o t : h \in Heads, n \in FillLengths, t \in Tails}

\* pieces the generation service's answer is put together from:
\*   1  '1. Ok'
\*   2  'appears to be corrupted'
\*   3  'It CONTAINS Unreadable Data.'
\*   4  'raw, bin'
\*   5  '*ary data'
\*   6  '# '
\*   7  '\u2022 '
\*   8  ' - x'
\*   9  '\n'
\*   10  '\u25e6 item'
ResponseFragments ==
    <<
      <<49, 46, 32, 79, 107>>,
      <<97, 112, 112, 101, 97, 114, 115, 32, 116, 111, 32, 98, 101, 32, 99,
      111, 114, 114, 117, 112, 116, 101, 100>>,
      <<73, 116, 32, 67, 79, 78, 84, 65, 73, 78, 83, 32, 85, 110, 114, 101,
      97, 100, 97, 98, 108, 101, 32, 68, 97, 116, 97, 46>>,
      <<114, 97, 119, 44, 32, 98, 105, 110>>,
      <<42, 97, 114, 121, 32, 100, 97, 116, 97>>,
      <<35, 32>>,
      <<8226, 32>>,
      <<32, 45, 32, 120>>,
      <<10>>,
      <<9702, 32, 105, 116, 101, 109>>
    >>

\* the fragments numbered by f, one after the other
RECURSIVE ConcatFragments(_, _)
ConcatFragments(f, k) ==
    IF k > Len(f) THEN <<>>
    ELSE ResponseFragments[f[k]] \o ConcatFragments(f, k + 1)

\* answers of at most MaxFragments fragments
Responses ==
    UNION {{ConcatFragments(f, 1) : f \in [1..n -> 1..Len(ResponseFragments)]} :
           n \in 0..MaxFragments}

SumInit ==
    /\ HandlerInit
    /\ CleanIdle
    /\ ExtractIdle
    /\ FrontIdle
    /\ gpc = "truncate"
    /\ g_input \in SumInputs
    /\ g_truncated = <<>>
    /\ g_request = <<>>
    /\ g_response = <<>>
    /\ g_summary = <<>>

\* index.py:214-217
GenTruncate ==
    /\ gpc = "truncate"
    /\ g_truncated' = Truncate(g_input)
    /\ gpc' = "sanitize"
    /\ UNCHANGED <<qvars, g_input, g_request, g_response, g_summary>>

\* index.py:219-242
GenSanitize ==
    /\ gpc = "sanitize"
    /\ g_request' = RequestText(g_truncated)
    /\ gpc' = "invoke"
    /\ UNCHANGED <<qvars, g_input, g_truncated, g_response, g_summary>>

\* index.py:255-261: the service answers, or the call (or reading its answer) raises
GenInvoke ==
    /\ gpc = "invoke"
    /\ \/ /\ gpc' = "raised"
          /\ UNCHANGED g_response
       \/ \E content \in Responses :
          /\ g_response' = content
          /\ gpc' = "postprocess"
    /\ UNCHANGED <<qvars, g_input, g_truncated, g_request, g_summary>>

\* index.py:263-267
GenPostProcess ==
    /\ gpc = "postprocess"
    /\ g_summary' = PostProcess(g_response)
    /\ gpc' = "guard"
    /\ UNCHANGED <<qvars, g_input, g_truncated, g_request, g_response>>

\* index.py:269-282
GenGuard ==
    /\ gpc = "guard"
    /\ g_summary' = PolicyGuard(g_summary)
    /\ gpc' = "returned"
    /\ UNCHANGED <<qvars, g_input, g_truncated, g_request, g_response>>

SumNext == GenTruncate \/ GenSanitize \/ GenInvoke \/ GenPostProcess \/ GenGuard

SpecSum == SumInit /\ [][SumNext]_vars

----------------------------------------------------------------------------
(* _clean_extracted_text as a pure function: its argument is put together   *)
(* from a few pieces, and the function is applied twice, as the fallback of *)
(* extract_text (index.py:190) and then generate_summary (index.py:220) do. *)

\* pieces of at most this many go into one raw text
MaxPieces == 3

\* the pieces a raw text is put together from:
\*   1  '\x00'
\*   2  '\n'
\*   3  '\r'
\*   4  ' '
\*   5  '\t'
\*   6  'a'
\*   7  '\x85' (next line)
\*   8  '\x7f'
\*   9  '\xa0' (no-break space)
\*   10  '\x96'
\*   11  '\x1f'
\*   12  'endobj'
\*   13  '%PDF'
\*   14  '1 0 obj'
\*   15  '\xe9'
\*   16  '%%EOF'
RawPieces ==
    <<
      <<0>>,
      <<10>>,
      <<13>>,
      <<32>>,
      <<9>>,
      <<97>>,
      <<133>>,
      <<127>>,
      <<160>>,
      <<150>>,
      <<31>>,
      <<101, 110, 100, 111, 98, 106>>,
      <<37, 80, 68, 70>>,
      <<49, 32, 48, 32, 111, 98, 106>>,
      <<233>>,
      <<37, 37, 69, 79, 70>>
    >>

\* the pieces of list numbered by f, one after the other
RECURSIVE ConcatPieces(_, _, _)
ConcatPieces(list, f, k) ==
    IF k > Len(f) THEN <<>>
    ELSE list[f[k]] \o ConcatPieces(list, f, k + 1)

\* raw texts of at most MaxPieces pieces
RawTexts ==
    UNION {{ConcatPieces(RawPieces, f, 1) : f \in [1..n -> 1..Len(RawPieces)]} :
           n \in 0..MaxPieces}

CleanInit ==
    /\ HandlerInit
    /\ SumIdle
    /\ ExtractIdle
    /\ FrontIdle
    /\ cpc = "raw"
    /\ c_raw \in RawTexts
    /\ c_cleaned = <<>>
    /\ c_again = <<>>

\* index.py:190: cleaned = _clean_extracted_text(raw_text)
CleanFirst ==
    /\ cpc = "raw"
    /\ c_cleaned' = _clean_extracted_text(c_raw)
    /\ cpc' = "cleaned"
    /\ UNCHANGED <<hvars, svars, gvars, xvars, fvars, c_raw, c_again>>

\* index.py:220: text_content = _clean_extracted_text(text_content)
CleanSecond ==
    /\ cpc = "cleaned"
    /\ c_again' = _clean_extracted_text(c_cleaned)
    /\ cpc' = "again"
    /\ UNCHANGED <<hvars, svars, gvars, xvars, fvars, c_raw, c_cleaned>>

CleanNext == CleanFirst \/ CleanSecond

SpecClean == CleanInit /\ [][CleanNext]_vars

----------------------------------------------------------------------------
(* extract_text on one stored object: the key, the bytes of the object and  *)
(* what the detection service answers are drawn from bounded sets.          *)

\* blocks in one answer of the detection service
MaxBlocks == 2

\* keys extract_text is called with:
\*   'notes.txt'
\*   'A.TXT'
\*   'r.Md'
\*   'd.csv'
\*   'e.LOG'
\*   'report.pdf'
\*   'a.txt.pdf'
\*   '.txt'
\*   'x.txt/y'
\*   'img.PNG'
\*   '..log'
ExtractKeys ==
    {
      <<110, 111, 116, 101, 115, 46, 116, 120, 116>>,
      <<65, 46, 84, 88, 84>>,
      <<114, 46, 77, 100>>,
      <<100, 46, 99, 115, 118>>,
      <<101, 46, 76, 79, 71>>,
      <<114, 101, 112, 111, 114, 116, 46, 112, 100, 102>>,
      <<97, 46, 116, 120, 116, 46, 112, 100, 102>>,
      <<46, 116, 120, 116>>,
      <<120, 46, 116, 120, 116, 47, 121>>,
      <<105, 109, 103, 46, 80, 78, 71>>,
      <<46, 46, 108, 111, 103>>
    }

\* contents of the stored object:
\*   b''
\*   b'Meeting at 3pm.\nBudget: $500.'
\*   b'%PDF-1.4\n1 0 obj\nHello World\nendobj\n%%EOF'
\*   b'\xc3\xa9t\xc3\xa9'
\*   b'caf\xe9'
\*   b'\x00endobj\nx'
\*   b'a\xffb\xe2\x82'
\*   b'p\n\n q \x01'
ObjectBytes ==
    {
      <<>>,
      <<77, 101, 101, 116, 105, 110, 103, 32, 97, 116, 32, 51, 112, 109,
      46, 10, 66, 117, 100, 103, 101, 116, 58, 32, 36, 53, 48, 48, 46>>,
      <<37, 80, 68, 70, 45, 49, 46, 52, 10, 49, 32, 48, 32, 111, 98, 106,
      10, 72, 101, 108, 108, 111, 32, 87, 111, 114, 108, 100, 10, 101, 110,
      100, 111, 98, 106, 10, 37, 37, 69, 79, 70>>,
      <<195, 169, 116, 195, 169>>,
      <<99, 97, 102, 233>>,
      <<0, 101, 110, 100, 111, 98, 106, 10, 120>>,
      <<97, 255, 98, 226, 130>>,
      <<112, 10, 10, 32, 113, 32, 1>>
    }

\* blocks of the detection service: LINE "Hello", LINE "World 2", WORD "Hello"
\* and a PAGE block, which has no Text
DetectedBlocks ==
    <<[BlockType |-> "LINE", Text |-> <<72, 101, 108, 108, 111>>],
      [BlockType |-> "LINE", Text |-> <<87, 111, 114, 108, 100, 32, 50>>],
      [BlockType |-> "WORD", Text |-> <<72, 101, 108, 108, 111>>],
      [BlockType |-> "PAGE"]>>

\* response.get("Blocks", []) of at most MaxBlocks blocks
BlockLists ==
    UNION {{[k \in 1..n |-> DetectedBlocks[f[k]]] : f \in [1..n -> 1..Len(DetectedBlocks)]} :
           n \in 0..MaxBlocks}

\* what the collaborators of extract_text raise: the detection service's
\* UnsupportedDocumentException, another failure of it, a failure of get_object
UnsupportedDocumentException ==
    [type |-> "UnsupportedDocumentException", message |-> <<117, 110, 115, 117, 112, 112, 111, 114, 116, 101, 100>>]
DetectionExc == [type |-> "InvalidS3ObjectException", message |-> <<116, 101, 120, 116, 114, 97, 99, 116>>]
GetObjectExc == [type |-> "NoSuchKey", message |-> <<115, 51>>]

ExtractInit ==
    /\ HandlerInit
    /\ SumIdle
    /\ CleanIdle
    /\ FrontIdle
    /\ xpc = "start"
    /\ x_key \in ExtractKeys
    /\ x_data \in ObjectBytes
    /\ x_blocks = <<>>
    /\ x_calls = <<>>
    /\ x_result = [kind |-> "running"]

\* one more entry in the record of the collaborator calls of extract_text
XCalled(op, how) == x_calls' = Append(x_calls, [op |-> op, outcome |-> how])

\* index.py:165-171, and 194-196 when get_object raises
ReadPlain ==
    /\ xpc = "start"
    /\ IsPlainTextKey(x_key)
    /\ \/ /\ XCalled("get_object", "ok")
          /\ x_result' = [kind |-> "returned", text |-> DecodePlain(x_data)]
          /\ xpc' = "returned"
       \/ /\ XCalled("get_object", "error")
          /\ x_result' = [kind |-> "raised", exception |-> GetObjectExc]
          /\ xpc' = "raised"
    /\ UNCHANGED <<hvars, svars, gvars, cvars, fvars, x_key, x_data, x_blocks>>

\* index.py:173-185, and 194-196 when the service raises anything but
\* UnsupportedDocumentException
Detect ==
    /\ xpc = "start"
    /\ ~IsPlainTextKey(x_key)
    /\ \/ \E blocks \in BlockLists :
             /\ XCalled("detect_document_text", "ok")
             /\ x_blocks' = blocks
             /\ x_result' = [kind |-> "returned", text |-> TextOfBlocks(blocks)]
             /\ xpc' = "returned"
       \/ /\ XCalled("detect_document_text", "unsupported")
          /\ xpc' = "fallback"
          /\ UNCHANGED <<x_blocks, x_result>>
       \/ /\ XCalled("detect_document_text", "error")
          /\ x_result' = [kind |-> "raised", exception |-> DetectionExc]
          /\ xpc' = "raised"
          /\ UNCHANGED x_blocks
    /\ UNCHANGED <<hvars, svars, gvars, cvars, fvars, x_key, x_data>>

\* the fallback returning the decoded bytes as they are
Fallback_NoSanitize ==
    /\ xpc = "fallback"
    /\ \/ /\ XCalled("get_object", "ok")
          /\ x_result' = [kind |-> "returned", text |-> DecodeUtf8Ignore(x_data)]
          /\ xpc' = "returned"
       \/ /\ XCalled("get_object", "error")
          /\ x_result' = [kind |-> "raised", exception |-> GetObjectExc]
          /\ xpc' = "raised"
    /\ UNCHANGED <<hvars, svars, gvars, cvars, fvars, x_key, x_data, x_blocks>>

\* index.py:186-191: the handler of UnsupportedDocumentException; what
\* get_object raises there leaves extract_text as it is
Fallback ==
    /\ xpc = "fallback"
    /\ \/ /\ XCalled("get_object", "ok")
          /\ x_result' = [kind |-> "returned",
                          text |-> _clean_extracted_text(DecodeUtf8Ignore(x_data))]
          /\ xpc' = "returned"
       \/ /\ XCalled("get_object", "error")
          /\ x_result' = [kind |-> "raised", exception |-> GetObjectExc]
          /\ xpc' = "raised"
    /\ UNCHANGED <<hvars, svars, gvars, cvars, fvars, x_key, x_data, x_blocks>>

ExtractNext == ReadPlain \/ Detect \/ Fallback

SpecExtract == ExtractInit /\ [][ExtractNext]_vars

----------------------------------------------------------------------------
(* The web front end, frontend/app.py:35-99, in front of the Lambda: every  *)
(* accepted upload puts one object into the input bucket, the bucket's      *)
(* OBJECT_CREATED notification (cdk-python/app.py:257-261) starts one       *)
(* invocation of lambda_handler for it, and upload_file polls the output    *)
(* bucket meanwhile.  Request u is served by invocation u.                  *)

\* polls of one request that find nothing before MAX_WAIT_SECONDS is over
\* (180 s at one poll every 5 s in the code)
MaxPolls == 2

\* file.filename of the requests, ASCII:
\*   "a b.txt", "../a b.txt", "...", ""
UploadNames ==
    { <<97, 32, 98, 46, 116, 120, 116>>,
      <<46, 46, 47, 97, 32, 98, 46, 116, 120, 116>>,
      <<46, 46, 46>>,
      <<>> }

\* request.files with and without the part "document"
Requests ==
    {[document |-> FALSE]} \cup {[document |-> TRUE, filename |-> n] : n \in UploadNames}

\* "_".join(s.split()) from s[i] on, s without leading and trailing whitespace
RECURSIVE JoinWords(_, _)
JoinWords(s, i) ==
    IF i > Len(s) THEN <<>>
    ELSE IF s[i] \in Whitespace
         THEN IF s[i - 1] \in Whitespace THEN JoinWords(s, i + 1)
              ELSE <<95>> \o JoinWords(s, i + 1)
    ELSE <<s[i]>> \o JoinWords(s, i + 1)

\* [A-Za-z0-9_.-], the characters werkzeug's secure_filename keeps
IsFilenameChar(c) ==
    \/ (48 <= c /\ c <= 57) \/ (65 <= c /\ c <= 90) \/ (97 <= c /\ c <= 122)
    \/ c \in {95, 46, 45}

\* str.strip("._")
StripDotsUnderscores(s) ==
    LET keep == {i \in 1..Len(s) : s[i] \notin {46, 95}}
    IN  IF keep = {} THEN <<>>
        ELSE SubSeq(s, CHOOSE i \in keep : \A j \in keep : i <= j,
                       CHOOSE i \in keep : \A j \in keep : j <= i)

\* werkzeug.utils.secure_filename on an ASCII name (posix): "/" becomes a
\* blank, the words are joined by "_", every other character than
\* [A-Za-z0-9_.-] is dropped, dots and underscores are stripped at both ends
secure_filename(name) ==
    LET blanks == [i \in 1..Len(name) |-> IF name[i] = 47 THEN 32 ELSE name[i]]
        joined == JoinWords(Strip(blanks), 1)
    IN  StripDotsUnderscores(SelectSeq(joined, IsFilenameChar))

\* one hexadecimal digit, upper case
HexDigit(n) == IF n < 10 THEN 48 + n ELSE 55 + n

\* the object key as the bucket notification carries it: URL-encoded, a blank
\* as "+", letters, digits and -_.*/ as they are
RECURSIVE S3EventKey(_)
S3EventKey(k) ==
    IF k = <<>> THEN <<>>
    ELSE LET c == Head(k)
         IN  (IF IsFilenameChar(c) \/ c \in {42, 47} THEN <<c>>
              ELSE IF c = 32 THEN <<43>>
              ELSE <<37, HexDigit(c \div 16), HexDigit(c % 16)>>)
             \o S3EventKey(Tail(k))

\* the event of the notification for the object k of the input bucket
EventOf(k) == [Records |-> TRUE, bucket |-> InputBucket, key |-> S3EventKey(k)]

\* the bytes of one code point in UTF-8
Utf8Bytes(c) ==
    IF c < 128 THEN <<c>>
    ELSE IF c < 2048 THEN <<192 + (c \div 64), 128 + (c % 64)>>
    ELSE IF c < 65536
         THEN <<224 + (c \div 4096), 128 + ((c \div 64) % 64), 128 + (c % 64)>>
    ELSE <<240 + (c \div 262144), 128 + ((c \div 4096) % 64),
           128 + ((c \div 64) % 64), 128 + (c % 64)>>

\* s[lo..hi] in UTF-8
RECURSIVE EncodeUtf8Range(_, _, _)
EncodeUtf8Range(s, lo, hi) ==
    IF lo > hi THEN <<>>
    ELSE IF lo = hi THEN Utf8Bytes(s[lo])
    ELSE LET mid == (lo + hi) \div 2
         IN  EncodeUtf8Range(s, lo, mid) \o EncodeUtf8Range(s, mid + 1, hi)

\* str.encode("utf-8"): what put_object stores for a Body given as str
EncodeUtf8(s) == EncodeUtf8Range(s, 1, Len(s))

\* f"{SUMMARY_PREFIX}{filename}.summary.txt", frontend/app.py:52 and 16
FrontSummaryKey(filename) ==
    <<115, 117, 109, 109, 97, 114, 105, 101, 115, 47>> \o filename
        \o <<46, 115, 117, 109, 109, 97, 114, 121, 46, 116, 120, 116>>

\* the invocation whose put_object wrote what the output bucket holds at k
WriterOf(k) ==
    LET at == {n \in 1..Len(put_log) : put_log[n].Key = k}
    IN  put_log[CHOOSE n \in at : \A m \in at : m <= n].by

\* frontend/app.py:36-49: the request is turned away, or the file is stored
\* in the input bucket under its secured name; upload_fileobj may raise, and
\* does when the name is empty (the lower bound of the Key parameter)
Upload(u) ==
    /\ fpc[u] = "idle"
    /\ \E req \in Requests :
        IF ~req.document \/ req.filename = <<>>
        THEN /\ fpc' = [fpc EXCEPT ![u] = "redirected"]
             /\ UNCHANGED <<f_filename, input_bucket>>
        ELSE LET filename == secure_filename(req.filename)
             IN  /\ f_filename' = [f_filename EXCEPT ![u] = filename]
                 /\ \/ /\ filename # <<>>
                       /\ input_bucket' = input_bucket \cup {filename}
                       /\ fpc' = [fpc EXCEPT ![u] = "polling"]
                    \/ /\ fpc' = [fpc EXCEPT ![u] = "upload_failed"]
                       /\ UNCHANGED input_bucket
    /\ UNCHANGED <<f_polls, f_body, f_source, hvars, svars, gvars, cvars, xvars>>

\* the input bucket notifies the Lambda of the object request u created
Deliver(u) ==
    /\ fpc[u] \in {"polling", "rendered", "not_ready"}
    /\ pc[u] = "idle"
    /\ Enter(u, EventOf(f_filename[u]))

\* frontend/app.py:57-70, one turn of the loop: the object is read, or it is
\* not there, or get_object raises something else
Poll(u) ==
    /\ fpc[u] = "polling"
    /\ f_polls[u] < MaxPolls
    /\ LET skey == FrontSummaryKey(f_filename[u])
       IN  \/ /\ skey \in DOMAIN output_bucket
              /\ f_body' = [f_body EXCEPT ![u] = EncodeUtf8(output_bucket[skey])]
              /\ f_source' = [f_source EXCEPT ![u] = WriterOf(skey)]
              /\ fpc' = [fpc EXCEPT ![u] = "rendered"]
              /\ UNCHANGED f_polls
           \/ /\ f_polls' = [f_polls EXCEPT ![u] = @ + 1]
              /\ UNCHANGED <<fpc, f_body, f_source>>
    /\ UNCHANGED <<f_filename, input_bucket, hvars, svars, gvars, cvars, xvars>>

\* summary_text of a request that found the object, frontend/app.py:61
summary_text(u) == DecodeUtf8Ignore(f_body[u])

\* frontend/app.py:72-83: the time is over and nothing was found
GiveUp(u) ==
    /\ fpc[u] = "polling"
    /\ f_polls[u] = MaxPolls
    /\ fpc' = [fpc EXCEPT ![u] = "not_ready"]
    /\ UNCHANGED <<f_filename, f_polls, f_body, f_source, input_bucket,
                   hvars, svars, gvars, cvars, xvars>>

FrontNext ==
    \/ \E u \in Inv : Upload(u)
    \/ \E u \in Inv : Deliver(u)
    \/ \E u \in Inv : Poll(u)
    \/ \E u \in Inv : GiveUp(u)
    \/ \E i \in Inv : PutProcessing(i)
    \/ \E i \in Inv : ExtractText(i)
    \/ \E i \in Inv : GenerateSummary(i)
    \/ \E i \in Inv : StoreSummary(i)
    \/ \E i \in Inv : PutCompleted(i)
    \/ \E i \in Inv : NotifySuccess(i)
    \/ \E i \in Inv : PutFailed(i)
    \/ \E i \in Inv : NotifyFailed(i)

SpecFront == Init /\ [][FrontNext]_vars

----------------------------------------------------------------------------
(* Vocabulary of the properties of lambda_handler.                          *)

Finished(i) == pc[i] \in {"returned", "raised"}

TerminalStatus == {"COMPLETED", "FAILED"}

\* positions in invocation i's calls of the put_item calls with a status in S
PutCalls(i, S) ==
    {k \in 1..Len(calls[i]) :
        calls[i][k].op = "put_item" /\ calls[i][k].arg.processing_status \in S}

\* positions of the publish calls with the given status
PublishCalls(i, status) ==
    {k \in 1..Len(calls[i]) :
        calls[i][k].op = "publish" /\ calls[i][k].arg.status = status}

\* positions of the calls of one collaborator operation, by how they ended
OpCalls(i, op, ok) ==
    {k \in 1..Len(calls[i]) : calls[i][k].op = op /\ calls[i][k].ok = ok}

\* every character of t is whitespace (the empty text included)
IsBlankText(t) == \A k \in 1..Len(t) : t[k] \in Whitespace

\* the records of the table that belong to invocation i's attempt
AttemptItems(i) ==
    {it \in table : /\ it.document_id = OrUnknown(document_id[i])
                    /\ it.processing_timestamp = processing_timestamp[i]}

\* the failure that sent invocation i into the exception handler, read off the
\* event and the collaborator calls
CauseOf(i) ==
    IF ~event[i].Records THEN KeyErrorExc
    ELSE IF ~WellFormed(event[i]) THEN KeyErrorKeyExc
    ELSE IF OpCalls(i, "extract_text", FALSE) # {} THEN ExtractionExc
    ELSE IF OpCalls(i, "invoke_model", FALSE) # {} THEN GenerationExc
    ELSE IF OpCalls(i, "put_object", FALSE) # {} THEN PutObjectExc
    ELSE IF text_content[i] # None /\ IsBlankText(text_content[i]) THEN EmptyTextExc
    ELSE NoExc

----------------------------------------------------------------------------
(* C1  Exactly one terminal record per attempt, after a PROCESSING record.  *)

\* C1 as claimed: whatever the event and the collaborators do, a finished
\* invocation leaves exactly one terminal record (COMPLETED or FAILED) of its
\* attempt in the record store, and a PROCESSING record with the same
\* document_id was written to the store before it.
C1_AsClaimed ==
    \A i \in Inv : Finished(i) =>
        /\ Cardinality({it \in AttemptItems(i) :
                            it.processing_status \in TerminalStatus}) = 1
        /\ \E k \in PutCalls(i, {"PROCESSING"}), m \in PutCalls(i, TerminalStatus) :
                /\ k < m
                /\ calls[i][k].ok
                /\ calls[i][k].arg.document_id = calls[i][m].arg.document_id

\* C1 amended: a finished invocation has issued exactly one terminal put_item,
\* COMPLETED if it returns and FAILED if it raises, never both; for a
\* well-formed event a PROCESSING put_item with the same document_id was issued
\* before it; and when the store accepted the terminal put_item, the attempt's
\* only record in the table is that terminal record.
C1_OneTerminalWrite ==
    \A i \in Inv : Finished(i) =>
        /\ Cardinality(PutCalls(i, TerminalStatus)) = 1
        /\ (pc[i] = "returned") = (PutCalls(i, {"COMPLETED"}) # {})
        /\ (pc[i] = "raised") = (PutCalls(i, {"FAILED"}) # {})
        /\ WellFormed(event[i]) =>
              \E k \in PutCalls(i, {"PROCESSING"}), m \in PutCalls(i, TerminalStatus) :
                  /\ k < m
                  /\ calls[i][k].arg.document_id = calls[i][m].arg.document_id
        /\ \A m \in PutCalls(i, TerminalStatus) :
              (calls[i][m].ok /\ document_id[i] # None) =>
                  AttemptItems(i) = {calls[i][m].arg}

\* an invocation returned after both its PROCESSING and its COMPLETED put_item
\* were accepted, and another raised after its FAILED put_item was refused
C1_Witness ==
    \E i, j \in Inv :
        /\ pc[i] = "returned"
        /\ \A k \in PutCalls(i, {"PROCESSING", "COMPLETED"}) : calls[i][k].ok
        /\ pc[j] = "raised"
        /\ \E k \in PutCalls(j, {"FAILED"}) : ~calls[j][k].ok

----------------------------------------------------------------------------
(* C2  The record store as an append-only log.                              *)

----------------------------------------------------------------------------
(* C3  The exception handler: FAILED record, FAILED notification, re-raise. *)

\* C3: when an invocation has raised, its last two collaborator calls are the
\* FAILED put_item carrying the message of the failure and then the FAILED
\* publish, each issued once whether or not the earlier one succeeded; the caller
\* receives the exception of the original failure and no result.
C3_FailedThenNotifyThenReraise ==
    \A i \in Inv : pc[i] = "raised" =>
        LET n == Len(calls[i])
        IN  /\ n >= 2
            /\ PutCalls(i, {"FAILED"}) = {n - 1}
            /\ PublishCalls(i, "FAILED") = {n}
            /\ calls[i][n - 1].arg.error_message = CauseOf(i).message
            /\ calls[i][n].arg.error_message = CauseOf(i).message
            /\ CauseOf(i) # NoExc
            /\ outcome[i] = [kind |-> "raised", exception |-> CauseOf(i)]

\* an invocation raised after extraction and both the FAILED put_item and the
\* FAILED publish failed
C3_Witness ==
    \E i \in Inv :
        /\ pc[i] = "raised"
        /\ OpCalls(i, "extract_text", TRUE) # {}
        /\ ~calls[i][Len(calls[i]) - 1].ok
        /\ ~calls[i][Len(calls[i])].ok

----------------------------------------------------------------------------
(* C4  A failed PROCESSING or COMPLETED record write.                       *)

\* C4 as claimed: lambda_handler never returns a success result for an attempt
\* one of whose record writes failed (the failure is raised to the caller after
\* a FAILED record write and a failure notification).
C4_AsClaimed ==
    \A i \in Inv : pc[i] = "returned" => OpCalls(i, "put_item", FALSE) = {}

----------------------------------------------------------------------------
(* C5  Blank extracted text.                                                *)

\* C5: once extract_text has returned text that is empty or all whitespace, the
\* invocation never calls the generation service nor put_object, and it ends by
\* raising the ValueError "No text could be extracted from the document." after
\* a FAILED put_item whose error_message is that message, which is the attempt's
\* record in the table when the store accepted it.
C5_BlankTextFails ==
    \A i \in Inv : (text_content[i] # None /\ IsBlankText(text_content[i])) =>
        /\ OpCalls(i, "invoke_model", TRUE) \cup OpCalls(i, "invoke_model", FALSE) = {}
        /\ OpCalls(i, "put_object", TRUE) \cup OpCalls(i, "put_object", FALSE) = {}
        /\ pc[i] \in {"put_failed", "notify_failed", "raised"}
        /\ Finished(i) =>
              /\ outcome[i] = [kind |-> "raised", exception |-> EmptyTextExc]
              /\ \E m \in PutCalls(i, {"FAILED"}) :
                    /\ calls[i][m].arg.error_message = EmptyTextExc.message
                    /\ calls[i][m].ok => AttemptItems(i) = {calls[i][m].arg}

\* an invocation whose extracted text was whitespace only, not empty, has raised
C5_Witness ==
    \E i \in Inv :
        /\ pc[i] = "raised"
        /\ text_content[i] # None
        /\ Len(text_content[i]) > 0
        /\ IsBlankText(text_content[i])

----------------------------------------------------------------------------
(* C6  The summary artifact is written on the success path only.            *)

\* C6: an invocation whose put_object succeeded goes on to the COMPLETED record
\* and returns the success result, with no FAILED put_item and no FAILED publish;
\* an invocation that raises has no successful put_object.
C6_ArtifactOnlyOnSuccess ==
    \A i \in Inv :
        /\ OpCalls(i, "put_object", TRUE) # {} =>
              /\ pc[i] \in {"put_completed", "notify_success", "returned"}
              /\ PutCalls(i, {"FAILED"}) = {}
              /\ PublishCalls(i, "FAILED") = {}
              /\ output_bucket # <<>>
              /\ Finished(i) =>
                    /\ PutCalls(i, {"COMPLETED"}) # {}
                    /\ outcome[i].kind = "returned"
                    /\ outcome[i].result.statusCode = 200
        /\ pc[i] \in {"put_failed", "notify_failed", "raised"} =>
              OpCalls(i, "put_object", TRUE) = {}

\* an invocation returned although the store refused its COMPLETED put_item,
\* and another raised on a failed put_object
C6_Witness ==
    \E i, j \in Inv :
        /\ pc[i] = "returned"
        /\ \E k \in PutCalls(i, {"COMPLETED"}) : ~calls[i][k].ok
        /\ pc[j] = "raised"
        /\ OpCalls(j, "put_object", FALSE) # {}

----------------------------------------------------------------------------
(* C7  A failing notification never changes the outcome.                    *)

\* C7: for a finished invocation all of whose put_item calls were accepted and
\* whose publish failed: on the success path its COMPLETED record is in the
\* table and the success result is returned; on the failure path its FAILED
\* record is in the table and the caller receives the original exception.
C7_NotificationFailureHarmless ==
    \A i \in Inv :
        (/\ Finished(i)
         /\ OpCalls(i, "put_item", FALSE) = {}
         /\ OpCalls(i, "publish", FALSE) # {})
        => \/ /\ PublishCalls(i, "SUCCESS") # {}
              /\ PublishCalls(i, "FAILED") = {}
              /\ \E it \in AttemptItems(i) : it.processing_status = "COMPLETED"
              /\ outcome[i].kind = "returned"
              /\ outcome[i].result.body.document_id = document_id[i]
           \/ /\ PublishCalls(i, "FAILED") # {}
              /\ PublishCalls(i, "SUCCESS") = {}
              /\ \E it \in AttemptItems(i) : it.processing_status = "FAILED"
              /\ outcome[i] = [kind |-> "raised", exception |-> CauseOf(i)]

\* one invocation returned and another raised, each after its publish failed
\* and with every put_item accepted
C7_Witness ==
    \E i, j \in Inv :
        /\ pc[i] = "returned" /\ pc[j] = "raised"
        /\ \A h \in {i, j} :
              /\ OpCalls(h, "put_item", FALSE) = {}
              /\ OpCalls(h, "publish", FALSE) # {}

----------------------------------------------------------------------------
(* Vocabulary of the properties of generate_summary.                        *)

\* p occurs in s, letter case ignored
ContainsAnyCase(s, p) ==
    \E i \in 0..(Len(s) - Len(p)) : \A j \in 1..Len(p) : LowerChar(s[i + j]) = p[j]

\* s contains one of the banned phrases in some letter case
BannedIn(s) == \E p \in bad_phrases : ContainsAnyCase(s, p)

\* the answer without "*", the three bullets and "-", trimmed
CleanedAnswer(content) ==
    Strip(SelectSeq(content, LAMBDA c : c \notin {42, 8226, 9679, 45, 9642}))

\* "*", "#", and the bullets U+2022, U+25CF, U+25AA, U+25E6, U+2023, U+2043
MarkupChars == {42, 35, 8226, 9679, 9642, 9702, 8227, 8259}

\* the request text of generate_summary has been built
RequestBuilt == gpc \in {"invoke", "postprocess", "guard", "returned", "raised"}

----------------------------------------------------------------------------
(* C8  The content-policy guard.                                            *)

\* C8 as claimed: generate_summary returns the canned fallback text when the
\* generated text contains a banned phrase in any letter case, and the cleaned
\* generated text when the generated text contains none.
C8_AsClaimed ==
    gpc = "returned" =>
        g_summary = IF BannedIn(g_response) THEN _generic_failure_summary
                    ELSE CleanedAnswer(g_response)

\* C8 amended: generate_summary returns exactly the canned fallback text when
\* the generated text contains a banned phrase in any letter case, and also when
\* one appears only once the formatting characters are removed; it returns the
\* cleaned generated text when the cleaned text contains no banned phrase.
C8_GuardOnCleanedText ==
    gpc = "returned" =>
        /\ BannedIn(g_response) => g_summary = _generic_failure_summary
        /\ g_summary = IF BannedIn(CleanedAnswer(g_response))
                       THEN _generic_failure_summary
                       ELSE CleanedAnswer(g_response)

\* the fallback was returned for an answer that has a banned phrase in capitals only
C8_Witness ==
    /\ gpc = "returned"
    /\ BannedIn(g_response)
    /\ \A p \in bad_phrases : ~Contains(g_response, p)
    /\ g_summary = _generic_failure_summary

----------------------------------------------------------------------------
(* C9  No markup in the returned summary.                                   *)

\* C9 as claimed: for an input within the 10,000-character budget and any answer
\* of the generation service, the returned summary contains no asterisk, no
\* bullet character and no "#".
C9_AsClaimed ==
    (gpc = "returned" /\ Len(g_input) <= max_length) =>
        \A k \in 1..Len(g_summary) : g_summary[k] \notin MarkupChars

----------------------------------------------------------------------------
(* C10  Truncation of the input.                                            *)

----------------------------------------------------------------------------
(* C11  What the sanitizer lets through.                                    *)

\* C11: for every raw text _clean_extracted_text returns a text, and every
\* character of it is a newline, a tab, a printable ASCII character (32-126) or
\* a character from code point 160 on: no control character (0-8, 11-31,
\* 127-159) is left.
C11_OnlyPrintableSurvives ==
    cpc # "raw" =>
        /\ c_cleaned \in Seq(Nat)
        /\ \A k \in 1..Len(c_cleaned) :
              /\ \/ c_cleaned[k] \in {10, 9}
                 \/ c_cleaned[k] \in 32..126
                 \/ c_cleaned[k] >= 160
              /\ c_cleaned[k] \notin (0..8) \cup (11..31) \cup (127..159)

\* a raw text with a C1 control character, not a line boundary, has been
\* cleaned to a text that is not empty
C11_Witness ==
    /\ cpc = "cleaned"
    /\ \E k \in 1..Len(c_raw) : c_raw[k] = 150
    /\ c_cleaned # <<>>

----------------------------------------------------------------------------
(* Vocabulary of the properties of extract_text.                            *)

\* extract_text has returned or raised
ExtractDone == xpc \in {"returned", "raised"}

\* the calls of extract_text so far, as <<operation, outcome>> pairs
XTrace == [k \in 1..Len(x_calls) |-> <<x_calls[k].op, x_calls[k].outcome>>]

\* the detection service was called and answered in the given way
Detected(how) ==
    \E k \in 1..Len(x_calls) :
        x_calls[k].op = "detect_document_text" /\ x_calls[k].outcome = how

\* the bytes of "%PDF-1.4\n1 0 obj\nHello World\nendobj\n%%EOF"
PdfExampleBytes ==
    <<37, 80, 68, 70, 45, 49, 46, 52, 10, 49, 32, 48, 32, 111, 98, 106, 10,
      72, 101, 108, 108, 111, 32, 87, 111, 114, 108, 100, 10, 101, 110, 100,
      111, 98, 106, 10, 37, 37, 69, 79, 70>>

\* "Hello World"
HelloWorld == <<72, 101, 108, 108, 111, 32, 87, 111, 114, 108, 100>>

\* the bytes of "p\n\n q \x01" and the text "p\n\nq "
ParagraphBytes == <<112, 10, 10, 32, 113, 32, 1>>
ParagraphText == <<112, 10, 10, 113, 32>>

----------------------------------------------------------------------------
(* C12  The fallback for a format the detection service does not support.   *)

\* C12 as claimed: once the detection service has reported the format as
\* unsupported, extract_text does not fail: it ends by returning the sanitizer's
\* output for the lossy UTF-8 decoding of the object's bytes, "Hello World" for
\* the bytes of the PDF example; any other detection failure is raised.
C12_AsClaimed ==
    ExtractDone =>
        /\ Detected("unsupported") =>
              /\ x_result.kind = "returned"
              /\ x_result.text = _clean_extracted_text(DecodeUtf8Ignore(x_data))
              /\ x_data = PdfExampleBytes => x_result.text = HelloWorld
        /\ Detected("error") =>
              x_result = [kind |-> "raised", exception |-> DetectionExc]

\* C12 amended: once the detection service has reported the format as
\* unsupported, extract_text does not raise that report: it reads the object,
\* and when the read succeeds it returns the sanitizer's output for the lossy
\* UTF-8 decoding of the bytes (blank lines kept, marker lines dropped, "Hello
\* World" for the PDF example); when the read fails, the failure of the read is
\* raised.  Any other detection failure is raised with no read of the object.
C12_FallbackSanitizes ==
    ExtractDone =>
        /\ Detected("unsupported") =>
              \/ /\ XTrace = << <<"detect_document_text", "unsupported">>,
                               <<"get_object", "ok">> >>
                 /\ x_result.kind = "returned"
                 /\ x_result.text = _clean_extracted_text(DecodeUtf8Ignore(x_data))
                 /\ x_data = PdfExampleBytes => x_result.text = HelloWorld
                 /\ x_data = ParagraphBytes => x_result.text = ParagraphText
              \/ /\ XTrace = << <<"detect_document_text", "unsupported">>,
                               <<"get_object", "error">> >>
                 /\ x_result = [kind |-> "raised", exception |-> GetObjectExc]
        /\ Detected("error") =>
              /\ XTrace = << <<"detect_document_text", "error">> >>
              /\ x_result = [kind |-> "raised", exception |-> DetectionExc]

\* the fallback has returned "Hello World" for the PDF example
C12_Witness ==
    /\ xpc = "returned"
    /\ Detected("unsupported")
    /\ x_data = PdfExampleBytes
    /\ x_result.text = HelloWorld

----------------------------------------------------------------------------
(* C13  The extraction strategy by extension.                               *)

\* the keys of ExtractKeys whose extension is .txt, .md, .csv or .log in some
\* letter case: "notes.txt", "A.TXT", "r.Md", "d.csv", "e.LOG"
PlainTextKeys ==
    { <<110, 111, 116, 101, 115, 46, 116, 120, 116>>, <<65, 46, 84, 88, 84>>,
      <<114, 46, 77, 100>>, <<100, 46, 99, 115, 118>>, <<101, 46, 76, 79, 71>> }

\* the bytes and the text of "Meeting at 3pm.\nBudget: $500." (ASCII)
MeetingNotes ==
    <<77, 101, 101, 116, 105, 110, 103, 32, 97, 116, 32, 51, 112, 109, 46, 10,
      66, 117, 100, 103, 101, 116, 58, 32, 36, 53, 48, 48, 46>>

\* C13: for a key whose extension is .txt, .md, .csv or .log in any letter case
\* extract_text calls get_object and nothing else, and raises only when that
\* call does; it returns the text the bytes encode in UTF-8 when they are
\* well-formed UTF-8 (the meeting notes verbatim, "\xc3\xa9t\xc3\xa9" as three
\* characters) and their Latin-1 reading otherwise ("caf\xe9" as four).  For every
\* other key the detection service is called first, and when it answers, the
\* result is the Text of its LINE blocks, in their order, joined by newlines.
C13_StrategyByExtension ==
    /\ (x_key \in PlainTextKeys /\ ExtractDone) =>
          /\ Len(x_calls) = 1
          /\ x_calls[1].op = "get_object"
          /\ (x_result.kind = "raised") = (x_calls[1].outcome = "error")
          /\ x_result.kind = "returned" =>
                /\ Len(DecodeUtf8Ignore(x_data)) = Len(x_data) => x_result.text = x_data
                /\ x_data = MeetingNotes => x_result.text = MeetingNotes
                /\ x_data = <<195, 169, 116, 195, 169>> => x_result.text = <<233, 116, 233>>
                /\ x_data = <<99, 97, 102, 233>> => x_result.text = <<99, 97, 102, 233>>
                /\ x_data = <<97, 255, 98, 226, 130>> => x_result.text = x_data
    /\ (x_key \in ExtractKeys \ PlainTextKeys /\ xpc # "start") =>
          /\ x_calls[1].op = "detect_document_text"
          /\ \A k \in 2..Len(x_calls) : x_calls[k].op # "detect_document_text"
          /\ Detected("ok") =>
                /\ Len(x_calls) = 1
                /\ x_result.kind = "returned"
                /\ x_result.text =
                      JoinLines(SelectSeq([k \in 1..Len(x_blocks) |->
                                    IF x_blocks[k].BlockType = "LINE"
                                    THEN x_blocks[k].Text ELSE <<-1>>],
                                LAMBDA t : t # <<-1>>))
                /\ x_blocks = <<DetectedBlocks[3], DetectedBlocks[2]>> =>
                      x_result.text = <<87, 111, 114, 108, 100, 32, 50>>
                /\ x_blocks = <<DetectedBlocks[2], DetectedBlocks[1]>> =>
                      x_result.text = <<87, 111, 114, 108, 100, 32, 50, 10,
                                        72, 101, 108, 108, 111>>

\* "A.TXT" holding the Latin-1 bytes of "caf\xe9" has been read as that text
C13_Witness ==
    /\ xpc = "returned"
    /\ x_key = <<65, 46, 84, 88, 84>>
    /\ x_data = <<99, 97, 102, 233>>
    /\ x_result.text = <<99, 97, 102, 233>>

----------------------------------------------------------------------------
(* C14  Invocations for the same document do not touch each other's records. *)

\* positions in invocation i's calls of the put_item calls the store accepted
AcceptedPuts(i) ==
    {k \in 1..Len(calls[i]) : calls[i][k].op = "put_item" /\ calls[i][k].ok}

\* the record invocation i wrote last, if the store accepted any
LatestRecord(i) ==
    IF AcceptedPuts(i) = {} THEN {}
    ELSE {calls[i][CHOOSE k \in AcceptedPuts(i) : \A m \in AcceptedPuts(i) : m <= k].arg}

\* invocations i and j were triggered for the same bucket and key
SameDocument(i, j) ==
    /\ i # j
    /\ pc[i] # "idle" /\ pc[j] # "idle"
    /\ WellFormed(event[i]) /\ WellFormed(event[j])
    /\ event[i].bucket = event[j].bucket
    /\ event[i].key = event[j].key

\* C14: two invocations triggered for the same bucket and key, however their
\* steps interleave, have different document_ids; each issues one PROCESSING
\* put_item under its own document_id, whose primary key no put_item of the
\* other carries; and the records stored under an invocation's document_id are
\* at all times exactly the record that invocation itself wrote last with
\* success: no write of the other invocation replaces, alters or removes it.
C14_IndependentLineages ==
    \A i, j \in Inv : SameDocument(i, j) =>
        /\ document_id[i] # document_id[j]
        /\ pc[i] # "put_processing" =>
              /\ Cardinality(PutCalls(i, {"PROCESSING"})) = 1
              /\ \A k \in PutCalls(i, {"PROCESSING"}) :
                    /\ calls[i][k].arg.document_id = document_id[i]
                    /\ calls[i][k].arg.document_key = key[i]
        /\ \A k \in OpCalls(i, "put_item", TRUE) \cup OpCalls(i, "put_item", FALSE),
              m \in OpCalls(j, "put_item", TRUE) \cup OpCalls(j, "put_item", FALSE) :
                 PrimaryKey(calls[i][k].arg) # PrimaryKey(calls[j][m].arg)
        /\ {it \in table : it.document_id = document_id[i]} = LatestRecord(i)

\* two invocations for the same key that read the same timestamp have both
\* finished, every put_item accepted, and the table holds a record of each
C14_Witness ==
    \E i, j \in Inv :
        /\ SameDocument(i, j)
        /\ Finished(i) /\ Finished(j)
        /\ processing_timestamp[i] = processing_timestamp[j]
        /\ OpCalls(i, "put_item", FALSE) = {} /\ OpCalls(j, "put_item", FALSE) = {}
        /\ Cardinality(table) = 2

----------------------------------------------------------------------------
(* C15  The artifact key, and two invocations writing it.                   *)

\* "invoice/jan.pdf" and "summaries/invoice/jan.pdf.summary.txt"
InvoiceKey == <<105, 110, 118, 111, 105, 99, 101, 47, 106, 97, 110, 46, 112, 100, 102>>
InvoiceSummaryKey ==
    <<115, 117, 109, 109, 97, 114, 105, 101, 115, 47, 105, 110, 118, 111, 105,
      99, 101, 47, 106, 97, 110, 46, 112, 100, 102, 46, 115, 117, 109, 109, 97,
      114, 121, 46, 116, 120, 116>>

\* the put_object requests served for the artifact key k, in order
PutsAt(k) == SelectSeq(put_log, LAMBDA r : r.Key = k)

\* invocation i has written its artifact
WroteArtifact(i) == OpCalls(i, "put_object", TRUE) # {}

\* C15: the artifact key an invocation writes and names in its COMPLETED record
\* is "summaries/" + key + ".summary.txt", for "invoice/jan.pdf" exactly
\* "summaries/invoice/jan.pdf.summary.txt"; two invocations for the same key
\* write the same artifact key and no other, and once both have written, the
\* output bucket holds under that key one artifact, the summary of the
\* put_object served last.
C15_OneArtifactLastWriterWins ==
    /\ \A i \in Inv : WroteArtifact(i) =>
          /\ summary_key[i] = <<115, 117, 109, 109, 97, 114, 105, 101, 115, 47>>
                \o key[i] \o <<46, 115, 117, 109, 109, 97, 114, 121, 46, 116, 120, 116>>
          /\ key[i] = InvoiceKey => summary_key[i] = InvoiceSummaryKey
          /\ \A k \in OpCalls(i, "put_object", TRUE) : calls[i][k].arg = summary_key[i]
          /\ \A k \in PutCalls(i, {"COMPLETED"}) :
                calls[i][k].arg.summary_key = summary_key[i]
          /\ summary_key[i] \in DOMAIN output_bucket
    /\ \A i, j \in Inv : (SameDocument(i, j) /\ WroteArtifact(i) /\ WroteArtifact(j)) =>
          LET puts == PutsAt(summary_key[i])
          IN  /\ summary_key[i] = summary_key[j]
              /\ Len(puts) >= 2
              /\ {i, j} \subseteq {puts[n].by : n \in 1..Len(puts)}
              /\ {put_log[n].Key : n \in {m \in 1..Len(put_log) : put_log[m].by \in {i, j}}}
                    = {summary_key[i]}
              /\ output_bucket[summary_key[i]] = summary[puts[Len(puts)].by]

\* two invocations for "invoice/jan.pdf" have returned with different
\* summaries, and the bucket holds the one written last, not the other
C15_Witness ==
    \E i, j \in Inv :
        /\ SameDocument(i, j)
        /\ key[i] = InvoiceKey
        /\ pc[i] = "returned" /\ pc[j] = "returned"
        /\ summary[i] # summary[j]
        /\ PutsAt(InvoiceSummaryKey)[2].by = j
        /\ output_bucket[InvoiceSummaryKey] = summary[j]

----------------------------------------------------------------------------
(* C16  "UNKNOWN" in the FAILED record and notification.                    *)

\* the FAILED put_item and the FAILED publish of invocation i, as arguments
FailureReports(i) ==
    {calls[i][k].arg : k \in PutCalls(i, {"FAILED"}) \cup PublishCalls(i, "FAILED")}

\* C16: the FAILED record and the FAILED notification of an invocation whose
\* event lacks "Records" or the object key carry the literal "UNKNOWN" as
\* document_id and as document_key; those of an invocation that failed later
\* carry the document_id it minted and the decoded key of its event.  In both
\* cases the caller receives the exception that caused the failure.
C16_UnknownUntilEstablished ==
    \A i \in Inv :
        /\ \A r \in FailureReports(i) :
              IF WellFormed(event[i])
              THEN /\ r.document_id = <<117, 117, 105, 100, 45, 48 + i>>
                   /\ r.document_key = unquote_plus(event[i].key)
                   /\ r.document_id = document_id[i] /\ r.document_key = key[i]
              ELSE /\ r.document_id = <<85, 78, 75, 78, 79, 87, 78>>
                   /\ r.document_key = <<85, 78, 75, 78, 79, 87, 78>>
                   /\ document_id[i] = None /\ key[i] = None
        /\ pc[i] = "raised" =>
              /\ Cardinality(FailureReports(i)) = 2
              /\ outcome[i] = [kind |-> "raised", exception |-> CauseOf(i)]

\* an invocation whose event names the bucket and no key has raised KeyError
\* after its FAILED record went into the table under "UNKNOWN"
C16_Witness ==
    \E i \in Inv :
        /\ pc[i] = "raised"
        /\ event[i].Records /\ ~WellFormed(event[i])
        /\ bucket[i] # None
        /\ outcome[i].exception = KeyErrorKeyExc
        /\ \E it \in table :
              /\ it.document_id = <<85, 78, 75, 78, 79, 87, 78>>
              /\ it.document_key = <<85, 78, 75, 78, 79, 87, 78>>
              /\ it.processing_status = "FAILED"

----------------------------------------------------------------------------
(* C17  The order of the collaborator calls on the success path.            *)

\* the operations invocation i has called, in order
OpsOf(i) == [k \in 1..Len(calls[i]) |-> calls[i][k].op]

\* C17: an invocation that has returned the success result has made exactly six
\* collaborator calls, each once and in this order: the PROCESSING put_item,
\* extract_text, the generation call, the artifact put_object, the COMPLETED
\* put_item, the SUCCESS publish; extraction, generation and the artifact write
\* succeeded.  In every state, a COMPLETED put_item comes after a put_object that
\* succeeded, and no operation but put_item appears twice in an invocation.
C17_SuccessPathOrder ==
    \A i \in Inv :
        /\ pc[i] = "returned" =>
              /\ OpsOf(i) = <<"put_item", "extract_text", "invoke_model",
                              "put_object", "put_item", "publish">>
              /\ calls[i][1].arg.processing_status = "PROCESSING"
              /\ calls[i][2].ok /\ calls[i][3].ok /\ calls[i][4].ok
              /\ calls[i][5].arg.processing_status = "COMPLETED"
              /\ calls[i][6].arg.status = "SUCCESS"
        /\ \A k \in PutCalls(i, {"COMPLETED"}) :
              \E m \in OpCalls(i, "put_object", TRUE) : m < k
        /\ \A k, m \in 1..Len(calls[i]) :
              (k # m /\ calls[i][k].op = calls[i][m].op) =>
                  /\ calls[i][k].op = "put_item"
                  /\ calls[i][k].arg.processing_status # calls[i][m].arg.processing_status

\* an invocation has returned with all six calls successful
C17_Witness ==
    \E i \in Inv :
        /\ pc[i] = "returned"
        /\ Len(calls[i]) = 6
        /\ \A k \in 1..6 : calls[i][k].ok

----------------------------------------------------------------------------
(* C18  SUCCESS is announced only for a stored COMPLETED record.            *)

\* C18 as claimed: in every state, each SUCCESS notification the topic has
\* accepted, and each success result returned, is for a document_id whose
\* COMPLETED record is in the table.
C18_AsClaimed ==
    /\ \A msg \in published : msg.status = "SUCCESS" =>
          \E it \in table : /\ it.document_id = msg.document_id
                            /\ it.processing_status = "COMPLETED"
    /\ \A i \in Inv : pc[i] = "returned" =>
          \E it \in table : /\ it.document_id = outcome[i].result.body.document_id
                            /\ it.processing_status = "COMPLETED"

----------------------------------------------------------------------------
(* C19  A second pass of the sanitizer.                                     *)

\* some line of t, trimmed, is one of the marker lines the sanitizer drops
HasMarkerLine(t) ==
    \E k \in 1..Len(splitlines(t)) :
        /\ Strip(splitlines(t)[k]) # <<>>
        /\ IsStructuralLine(Strip(splitlines(t)[k]))

\* C19 as claimed: the sanitizer's output has no marker line left, and a second
\* pass over it returns it unchanged.
C19_AsClaimed ==
    /\ cpc # "raw" => ~HasMarkerLine(c_cleaned)
    /\ cpc = "again" => c_again = c_cleaned

----------------------------------------------------------------------------
(* C20  The summary the front end shows.                                    *)

\* the key lambda_handler writes the artifact at for the uploaded object
LambdaKeyFor(filename) == SummaryKeyOf(unquote_plus(S3EventKey(filename)))

\* C20 as claimed: whenever upload_file renders a summary, the object it read
\* was written by the invocation this very upload started, and the key it
\* polls is the key the Lambda writes for that filename.
C20_AsClaimed ==
    \A u \in Inv :
        fpc[u] = "rendered" =>
            /\ f_source[u] = u
            /\ FrontSummaryKey(f_filename[u]) = LambdaKeyFor(f_filename[u])

====
